---------------------------- MODULE Spec2Model ----------------------------
(***************************************************************************)
(* Model of btrfs-list.c: the subvolume listing of btrfs-progs.            *)
(*                                                                         *)
(* list_subvols() reads the ROOT_BACKREF items of the tree of tree roots   *)
(* in batches (BTRFS_IOC_TREE_SEARCH), stores one root_info per item in an *)
(* rbtree keyed by (root_id, ref_tree), asks the kernel for the directory  *)
(* path of every root_info (BTRFS_IOC_INO_LOOKUP) and finally walks the    *)
(* ref_tree chain of every root_info to print its full path.               *)
(*                                                                         *)
(* Representation.  The rbtree is represented by the left-to-right         *)
(* (in-order) sequence of its nodes: index 1 is the leftmost node, which   *)
(* is what rb_first returns, rb_next/rb_prev move one position right/left, *)
(* and rebalancing (rb_insert_color) does not change that sequence.  A     *)
(* node pointer is an index into the sequence, 0 is the NULL pointer.      *)
(* A C string is a sequence of one-character strings.  A char * that may   *)
(* be NULL is <<>> (NULL) or <<s>> (pointer to the string s).              *)
(***************************************************************************)
EXTENDS Integers, Sequences, FiniteSets, TLC

(***************************************************************************)
(* Bounds of the model.                                                    *)
(***************************************************************************)
\* the largest identifier: stands for (u64)-1
U64Max == 300
\* the filesystems and trees the model generates use the identifiers
\* 0..MaxId and U64Max
MaxId == 1
\* the largest number of backref items the filesystem holds, and of
\* root_info the unit harness puts in the tree
MaxRecs == 3
\* the largest number of loop iterations of one resolve_root call that the
\* model follows (a reference cycle makes the loop run for ever)
MaxWalk == 4

Ids == (0 .. MaxId) \cup {U64Max}
\* the directory objectids of the generated filesystems
DirIds == {0, 1}
\* the directories for which the kernel gives an empty path: the first of
\* DirIds, and 256, the root directory of a subvolume
RootDirIds == {0, 256}
\* the nr_items the program asks for: 4096 in the program, scaled down
BatchCaps == {1, 2, MaxRecs}

NULL == <<>>
Ptr(s) == <<s>>
Deref(p) == p[1]

VARIABLES
    src,        \* the filesystem's ROOT_BACKREF items, in key order
    tree,       \* root_lookup.root: in-order sequence of root_info
    cap,        \* the nr_items the program asks for
    sk,         \* args.key: min_objectid, min_type, min_offset, nr_items
    buf,        \* args.buf: the items the last search returned
    i,          \* the for loop's index into buf
    n,          \* the rb_node cursor of the resolve and stitch loops
    found,      \* resolve_root: found
    full_path,  \* resolve_root: full_path
    ret,        \* list_subvols: ret
    pc,         \* position in list_subvols
    out,        \* what resolve_root printed: <<root_id, top_id, full_path>>
    lookups,    \* history: the number of INO_LOOKUP calls
    resolved,   \* history: the nodes list_subvols called lookup_ino_path on
    searches,   \* history: tree_search calls of the current resolve_root
    visited,    \* history: nodes visited by the current resolve_root
    stitched,   \* history: the nodes resolve_root was called on
    calls,      \* history: TREE_SEARCH calls, each <<min_objectid, nr found>>
    op          \* history: the last call of the unit harness

vars == <<src, tree, cap, sk, buf, i, n, found, full_path, ret, pc, out,
          lookups, resolved, searches, visited, stitched, calls, op>>

(***************************************************************************)
(* The inputs: backref items and their names.                              *)
(***************************************************************************)
\* the name of the subvolume of an item: one distinct name per key
NameOf(objectid, offset) == <<"s", ToString(objectid), ToString(offset)>>

Item(objectid, offset, dirid) ==
    [objectid |-> objectid, offset |-> offset, dirid |-> dirid,
     name |-> NameOf(objectid, offset)]

\* the order of btrfs keys of one type: objectid, then offset
KeyLE(o1, f1, o2, f2) == o1 < o2 \/ (o1 = o2 /\ f1 <= f2)

(***************************************************************************)
(* rbtree navigation on the in-order sequence.                             *)
(***************************************************************************)
rb_first(root) == IF Len(root) = 0 THEN 0 ELSE 1
rb_last(root) == Len(root)
\* an rb_next that steps over a node
rb_next_skip(root, node) == IF node + 1 < Len(root) THEN node + 2 ELSE 0
rb_next(root, node) == IF node < Len(root) THEN node + 1 ELSE 0
\* rb_next where rb_prev is meant
rb_prev_forward(root, node) == IF node < Len(root) THEN node + 1 ELSE 0
rb_prev(root, node) == node - 1

InsertAt(s, pos, e) == SubSeq(s, 1, pos - 1) \o <<e>> \o SubSeq(s, pos, Len(s))

(***************************************************************************)
(* comp_entry, tree_insert, tree_search, add_root.                         *)
(***************************************************************************)
\* the key compared with the entry, instead of the entry with the key
comp_entry_reversed(entry, root_id, ref_tree) ==
    IF entry.root_id > root_id THEN -1
    ELSE IF entry.root_id < root_id THEN 1
    ELSE IF entry.ref_tree > ref_tree THEN -1
    ELSE IF entry.ref_tree < ref_tree THEN 1
    ELSE 0

comp_entry(entry, root_id, ref_tree) ==
    IF entry.root_id > root_id THEN 1
    ELSE IF entry.root_id < root_id THEN -1
    ELSE IF entry.ref_tree > ref_tree THEN 1
    ELSE IF entry.ref_tree < ref_tree THEN -1
    ELSE 0

\* the while(*p) descent of tree_insert over the nodes lo..hi, whose subtree
\* root is taken to be the middle node.  The result is the node with the
\* same key (parent) or the in-order position of the empty link (slot).
RECURSIVE insert_descend(_, _, _, _, _)
insert_descend(root, lo, hi, root_id, ref_tree) ==
    IF lo > hi THEN [parent |-> 0, slot |-> lo]
    ELSE LET p == (lo + hi) \div 2
             comp == comp_entry(root[p], root_id, ref_tree)
         IN  IF comp < 0 THEN insert_descend(root, lo, p - 1, root_id, ref_tree)
             ELSE IF comp > 0
                  THEN insert_descend(root, p + 1, hi, root_id, ref_tree)
             ELSE [parent |-> p, slot |-> 0]

\* a descent that does not stop at an equal key
RECURSIVE insert_descend_nodup(_, _, _, _, _)
insert_descend_nodup(root, lo, hi, root_id, ref_tree) ==
    IF lo > hi THEN [parent |-> 0, slot |-> lo]
    ELSE LET p == (lo + hi) \div 2
             comp == comp_entry(root[p], root_id, ref_tree)
         IN  IF comp < 0
             THEN insert_descend_nodup(root, lo, p - 1, root_id, ref_tree)
             ELSE insert_descend_nodup(root, p + 1, hi, root_id, ref_tree)

tree_insert_nodup(root, root_id, ref_tree, node) ==
    LET d == insert_descend_nodup(root, 1, Len(root), root_id, ref_tree)
    IN  [ret |-> 0, root |-> InsertAt(root, d.slot, node)]

\* a descent that goes right where tree_insert goes left
RECURSIVE insert_descend_flipped(_, _, _, _, _)
insert_descend_flipped(root, lo, hi, root_id, ref_tree) ==
    IF lo > hi THEN [parent |-> 0, slot |-> lo]
    ELSE LET p == (lo + hi) \div 2
             comp == comp_entry(root[p], root_id, ref_tree)
         IN  IF comp < 0
             THEN insert_descend_flipped(root, p + 1, hi, root_id, ref_tree)
             ELSE IF comp > 0
                  THEN insert_descend_flipped(root, lo, p - 1, root_id, ref_tree)
             ELSE [parent |-> p, slot |-> 0]

tree_insert_flipped(root, root_id, ref_tree, node) ==
    LET d == insert_descend_flipped(root, 1, Len(root), root_id, ref_tree)
    IN  IF d.parent # 0
        THEN [ret |-> d.parent, root |-> root]
        ELSE [ret |-> 0, root |-> InsertAt(root, d.slot, node)]

\* ret is the existing node (0: NULL, the node was linked)
tree_insert(root, root_id, ref_tree, node) ==
    LET d == insert_descend(root, 1, Len(root), root_id, ref_tree)
    IN  IF d.parent # 0
        THEN [ret |-> d.parent, root |-> root]
        ELSE [ret |-> 0, root |-> InsertAt(root, d.slot, node)]

\* the while(n) descent of tree_search: the first node met with the root_id
RECURSIVE search_descend(_, _, _, _)
search_descend(root, lo, hi, root_id) ==
    IF lo > hi THEN 0
    ELSE LET p == (lo + hi) \div 2
         IN  IF root[p].root_id < root_id
             THEN search_descend(root, lo, p - 1, root_id)
             ELSE IF root[p].root_id > root_id
                  THEN search_descend(root, p + 1, hi, root_id)
             ELSE p

\* the while(1) loop of tree_search: back over the nodes with the root_id
RECURSIVE search_prev(_, _, _)
search_prev(root, node, root_id) ==
    LET prev_n == rb_prev(root, node)
    IN  IF prev_n = 0 THEN node
        ELSE IF root[prev_n].root_id # root_id THEN node
        ELSE search_prev(root, prev_n, root_id)

tree_search(root, root_id) ==
    LET node == search_descend(root, 1, Len(root), root_id)
    IN  IF node = 0 THEN 0 ELSE search_prev(root, node, root_id)

\* ret # 0: "failed to insert tree", exit(1)
add_root(root, root_id, ref_tree, dir_id, name) ==
    LET ri == [root_id |-> root_id, ref_tree |-> ref_tree, dir_id |-> dir_id,
               name |-> name, path |-> NULL]
    IN  tree_insert(root, root_id, ref_tree, ri)

(***************************************************************************)
(* The two ioctls, as the kernel answers them.                             *)
(***************************************************************************)
\* BTRFS_IOC_TREE_SEARCH: the items whose key is not below the min key, in
\* key order, at most nr_items of them
in_sk(it, key) == KeyLE(key.min_objectid, key.min_offset, it.objectid, it.offset)

tree_search_ioctl(items, key) ==
    LET hits == SelectSeq(items, LAMBDA it : in_sk(it, key))
    IN  SubSeq(hits, 1, IF Len(hits) < key.nr_items THEN Len(hits)
                        ELSE key.nr_items)

\* BTRFS_IOC_INO_LOOKUP: the path of directory objectid in tree treeid, with
\* a trailing /; empty for a root directory
ino_lookup_ioctl(treeid, objectid) ==
    IF objectid \in RootDirIds THEN <<>>
    ELSE <<"d", ToString(treeid), ToString(objectid), "/">>

(***************************************************************************)
(* lookup_ino_path.                                                        *)
(***************************************************************************)
\* a lookup_ino_path that puts the directory path into ri->name too
lookup_ino_path_rename(ri) ==
    IF ri.path # NULL THEN [ioctls |-> 0, ri |-> ri]
    ELSE LET name == ino_lookup_ioctl(ri.ref_tree, ri.dir_id)
         IN  [ioctls |-> 1,
              ri |-> IF name # <<>>
                     THEN [ri EXCEPT !.path = Ptr(name \o ri.name),
                                     !.name = name \o ri.name]
                     ELSE [ri EXCEPT !.path = Ptr(ri.name)]]

\* a lookup_ino_path that does not return early when the path is set
lookup_ino_path_again(ri) ==
    LET name == ino_lookup_ioctl(ri.ref_tree, ri.dir_id)
    IN  [ioctls |-> 1,
         ri |-> IF name # <<>>
                THEN [ri EXCEPT !.path = Ptr(name \o ri.name)]
                ELSE [ri EXCEPT !.path = Ptr(ri.name)]]

\* a successful lookup_ino_path: the root_info after it, and the number of
\* ioctls it made
lookup_ino_path(ri) ==
    IF ri.path # NULL THEN [ioctls |-> 0, ri |-> ri]
    ELSE LET name == ino_lookup_ioctl(ri.ref_tree, ri.dir_id)
         IN  [ioctls |-> 1,
              ri |-> IF name # <<>>
                     THEN [ri EXCEPT !.path = Ptr(name \o ri.name)]
                     ELSE [ri EXCEPT !.path = Ptr(ri.name)]]

(***************************************************************************)
(* resolve_root: one iteration of its while (1) loop.                      *)
(***************************************************************************)
\* found->path put in front of full_path without the "/"
splice_noslash(path, full) ==
    IF full # NULL THEN Ptr(path \o Deref(full)) ELSE Ptr(path)

\* found->path put behind full_path
splice_behind(path, full) ==
    IF full # NULL THEN Ptr(Deref(full) \o <<"/">> \o path) ELSE Ptr(path)

\* lines 217-232: full_path after found->path was put in front of it
splice(path, full) ==
    IF full # NULL THEN Ptr(path \o <<"/">> \o Deref(full)) ELSE Ptr(path)

\* the loop left at the first root_info, whatever its ref_tree
walk_next_no_search(root, node) ==
    [brk |-> TRUE, top_id |-> root[node].ref_tree, found |-> 0, searched |-> 0]

\* no test for ref_tree == root_id
walk_next_no_selfcheck(root, node) ==
    LET next == root[node].ref_tree
        f == tree_search(root, next)
    IN  IF f = 0
        THEN [brk |-> TRUE, top_id |-> next, found |-> 0, searched |-> 1]
        ELSE [brk |-> FALSE, top_id |-> 0, found |-> f, searched |-> 1]

\* tree_search before the test for ref_tree == root_id
walk_next_search_first(root, node) ==
    LET next == root[node].ref_tree
        f == tree_search(root, next)
    IN  IF f = 0
        THEN [brk |-> TRUE, top_id |-> next, found |-> 0, searched |-> 1]
        ELSE IF next = root[node].root_id
        THEN [brk |-> TRUE, top_id |-> next, found |-> node, searched |-> 1]
        ELSE [brk |-> FALSE, top_id |-> 0, found |-> f, searched |-> 1]

\* top_id of the last root_info instead of its ref_tree
walk_next_own_id(root, node) ==
    LET next == root[node].ref_tree
    IN  IF next = root[node].root_id
        THEN [brk |-> TRUE, top_id |-> next, found |-> node, searched |-> 0]
        ELSE LET f == tree_search(root, next)
             IN  IF f = 0
                 THEN [brk |-> TRUE, top_id |-> root[node].root_id,
                       found |-> 0, searched |-> 1]
                 ELSE [brk |-> FALSE, top_id |-> 0, found |-> f,
                       searched |-> 1]

\* lines 234-249: brk is the break, top_id and the next found
walk_next(root, node) ==
    LET next == root[node].ref_tree
    IN  IF next = root[node].root_id
        THEN [brk |-> TRUE, top_id |-> next, found |-> node, searched |-> 0]
        ELSE LET f == tree_search(root, next)
             IN  IF f = 0
                 THEN [brk |-> TRUE, top_id |-> next, found |-> 0,
                       searched |-> 1]
                 ELSE [brk |-> FALSE, top_id |-> 0, found |-> f,
                       searched |-> 1]

\* resolve_root(rl, ri) is entered with ri = node
resolve_root_call(node) ==
    /\ found' = node
    /\ full_path' = NULL
    /\ searches' = 0
    /\ visited' = <<>>
    /\ stitched' = Append(stitched, node)
    /\ pc' = "walk"

\* one iteration; at the break the triple is printed and resolve_root returns
\* to the position retpc of its caller, whose cursor becomes retn
resolve_root_iter(retpc, retn) ==
    /\ pc = "walk"
    /\ Len(visited) < MaxWalk
    /\ IF tree[found].path = NULL
       THEN \* strlen(NULL)
            /\ pc' = "segv"
            /\ UNCHANGED <<found, full_path, searches, visited, out, n>>
       ELSE LET full == splice(Deref(tree[found].path), full_path)
                w == walk_next(tree, found)
            IN  /\ visited' = Append(visited, found)
                /\ searches' = searches + w.searched
                /\ IF w.brk
                   THEN /\ out' = Append(out, <<tree[n].root_id, w.top_id,
                                                Deref(full)>>)
                        /\ full_path' = NULL
                        /\ found' = 0
                        /\ n' = retn
                        /\ pc' = retpc
                   ELSE /\ full_path' = full
                        /\ found' = w.found
                        /\ UNCHANGED <<out, n, pc>>

(***************************************************************************)
(* list_subvols.                                                           *)
(***************************************************************************)
InitKey == [min_objectid |-> 0, min_type |-> "ROOT_BACKREF", min_offset |-> 0,
            nr_items |-> 0]

InitCommon ==
    /\ src = <<>>
    /\ tree = <<>>
    /\ cap = 0
    /\ sk = InitKey
    /\ buf = <<>>
    /\ i = 0
    /\ n = 0
    /\ found = 0
    /\ full_path = NULL
    /\ ret = 0
    /\ out = <<>>
    /\ lookups = 0
    /\ resolved = <<>>
    /\ searches = 0
    /\ visited = <<>>
    /\ stitched = <<>>
    /\ calls = <<>>
    /\ op = <<"none">>

Init == InitCommon /\ pc = "fs"

\* the filesystem gets one more backref item (before the listing starts)
AddBackref ==
    /\ pc = "fs"
    /\ Len(src) < MaxRecs
    /\ \E o \in Ids, f \in Ids, d \in DirIds :
          /\ Len(src) > 0 =>
                KeyLE(src[Len(src)].objectid, src[Len(src)].offset, o, f)
          /\ src' = Append(src, Item(o, f, d))
    /\ UNCHANGED <<tree, cap, sk, buf, i, n, found, full_path, ret, pc, out,
                   lookups, resolved, searches, visited, stitched, calls, op>>

\* lines 321-344: list_subvols is called
ListSubvols ==
    /\ pc = "fs"
    /\ \E c \in BatchCaps :
          /\ cap' = c
          /\ sk' = [InitKey EXCEPT !.nr_items = c]
    /\ tree' = <<>>
    /\ pc' = "search"
    /\ UNCHANGED <<src, buf, i, n, found, full_path, ret, out,
                   lookups, resolved, searches, visited, stitched, calls, op>>

\* lines 347-351: the search ioctl fails
TreeSearchFail ==
    /\ pc = "search"
    /\ ret' = -1
    /\ pc' = "error"
    /\ calls' = Append(calls, <<sk.min_objectid, -1>>)
    /\ UNCHANGED <<src, tree, cap, sk, buf, i, n, found, full_path, out,
                   lookups, resolved, searches, visited, stitched, op>>

\* a search whose empty batch does not end the loop
TreeSearch_no_break ==
    /\ pc = "search"
    /\ LET batch == tree_search_ioctl(src, sk)
       IN  /\ buf' = batch
           /\ sk' = [sk EXCEPT !.nr_items = Len(batch)]
           /\ calls' = Append(calls, <<sk.min_objectid, Len(batch)>>)
           /\ pc' = "items"
    /\ ret' = 0
    /\ i' = 0
    /\ UNCHANGED <<src, tree, cap, n, found, full_path, out,
                   lookups, resolved, searches, visited, stitched, op>>

\* lines 347-356: the search ioctl returns a batch
TreeSearch ==
    /\ pc = "search"
    /\ LET batch == tree_search_ioctl(src, sk)
       IN  /\ buf' = batch
           /\ sk' = [sk EXCEPT !.nr_items = Len(batch)]
           /\ calls' = Append(calls, <<sk.min_objectid, Len(batch)>>)
           /\ pc' = IF Len(batch) = 0 THEN "built" ELSE "items"
    /\ ret' = 0
    /\ i' = 0
    /\ UNCHANGED <<src, tree, cap, n, found, full_path, out,
                   lookups, resolved, searches, visited, stitched, op>>

\* lines 362-384: one iteration of the for loop
AddItem ==
    /\ pc = "items"
    /\ i < sk.nr_items
    /\ LET sh == buf[i + 1]
           r == add_root(tree, sh.objectid, sh.offset, sh.dirid, sh.name)
       IN  IF r.ret # 0
           THEN /\ pc' = "exit"
                /\ UNCHANGED <<tree, sk, i>>
           ELSE /\ tree' = r.root
                /\ sk' = [sk EXCEPT !.min_objectid = sh.objectid,
                                    !.min_type = "ROOT_BACKREF",
                                    !.min_offset = sh.offset]
                /\ i' = i + 1
                /\ pc' = "items"
    /\ UNCHANGED <<src, cap, buf, n, found, full_path, ret, out,
                   lookups, resolved, searches, visited, stitched, calls, op>>

\* min_objectid++ without the test for (u64)-1
advance_wraps(key, c) ==
    [brk |-> FALSE,
     key |-> [key EXCEPT !.nr_items = c,
              !.min_objectid = (key.min_objectid + 1) % (U64Max + 1)]]

\* the next search with the min_objectid of the last item
advance_no_step(key, c) ==
    IF key.min_objectid < U64Max
    THEN [brk |-> FALSE, key |-> [key EXCEPT !.nr_items = c]]
    ELSE [brk |-> TRUE, key |-> [key EXCEPT !.nr_items = c]]

\* lines 385-392: the key of the next search
advance(key, c) ==
    IF key.min_objectid < U64Max
    THEN [brk |-> FALSE,
          key |-> [key EXCEPT !.nr_items = c,
                   !.min_objectid = (key.min_objectid + 1) % (U64Max + 1)]]
    ELSE [brk |-> TRUE, key |-> [key EXCEPT !.nr_items = c]]

\* the for loop left after its first iteration
NextBatch_early ==
    /\ pc = "items"
    /\ i >= 1
    /\ LET a == advance(sk, cap)
       IN  /\ sk' = a.key
           /\ pc' = IF a.brk THEN "built" ELSE "search"
    /\ UNCHANGED <<src, tree, cap, buf, i, n, found, full_path, ret, out,
                   lookups, resolved, searches, visited, stitched, calls, op>>

NextBatch ==
    /\ pc = "items"
    /\ i = sk.nr_items
    /\ LET a == advance(sk, cap)
       IN  /\ sk' = a.key
           /\ pc' = IF a.brk THEN "built" ELSE "search"
    /\ UNCHANGED <<src, tree, cap, buf, i, n, found, full_path, ret, out,
                   lookups, resolved, searches, visited, stitched, calls, op>>

\* line 398
ResolveBegin ==
    /\ pc = "built"
    /\ n' = rb_first(tree)
    /\ pc' = "resolve"
    /\ UNCHANGED <<src, tree, cap, sk, buf, i, found, full_path, ret, out,
                   lookups, resolved, searches, visited, stitched, calls, op>>

\* lines 399-407: lookup_ino_path succeeds
LookupInoPath ==
    /\ pc = "resolve"
    /\ n # 0
    /\ LET r == lookup_ino_path(tree[n])
       IN  /\ tree' = [tree EXCEPT ![n] = r.ri]
           /\ lookups' = lookups + r.ioctls
    /\ resolved' = Append(resolved, n)
    /\ n' = rb_next(tree, n)
    /\ UNCHANGED <<src, cap, sk, buf, i, found, full_path, ret, pc, out,
                   searches, visited, stitched, calls, op>>

\* a failed lookup that does not end the resolve loop
LookupInoPathFail_goes_on ==
    /\ pc = "resolve"
    /\ n # 0
    /\ tree[n].path = NULL
    /\ lookups' = lookups + 1
    /\ resolved' = Append(resolved, n)
    /\ ret' = -1
    /\ n' = rb_next(tree, n)
    /\ UNCHANGED <<src, tree, cap, sk, buf, i, found, full_path, pc, out,
                   searches, visited, stitched, calls, op>>

\* lines 276-281, 404-405: the lookup ioctl fails
LookupInoPathFail ==
    /\ pc = "resolve"
    /\ n # 0
    /\ tree[n].path = NULL
    /\ lookups' = lookups + 1
    /\ resolved' = Append(resolved, n)
    /\ ret' = -1
    /\ pc' = "error"
    /\ UNCHANGED <<src, tree, cap, sk, buf, i, n, found, full_path, out,
                   searches, visited, stitched, calls, op>>

\* line 413
StitchBegin ==
    /\ pc = "resolve"
    /\ n = 0
    /\ n' = rb_last(tree)
    /\ pc' = "stitch"
    /\ UNCHANGED <<src, tree, cap, sk, buf, i, found, full_path, ret, out,
                   lookups, resolved, searches, visited, stitched, calls, op>>

\* lines 414-417: resolve_root is called on the entry at n
Stitch ==
    /\ pc = "stitch"
    /\ n # 0
    /\ resolve_root_call(n)
    /\ UNCHANGED <<src, tree, cap, sk, buf, i, n, ret, out, lookups, resolved,
                   calls, op>>

\* lines 213-254 and 418
StitchWalk ==
    /\ resolve_root_iter("stitch", rb_prev(tree, n))
    /\ UNCHANGED <<src, tree, cap, sk, buf, i, ret, lookups, resolved, stitched,
                   calls,
                   op>>

\* line 421
Return ==
    /\ pc = "stitch"
    /\ n = 0
    /\ pc' = "done"
    /\ UNCHANGED <<src, tree, cap, sk, buf, i, n, found, full_path, ret, out,
                   lookups, resolved, searches, visited, stitched, calls, op>>

Next ==
    \/ AddBackref
    \/ ListSubvols
    \/ TreeSearchFail
    \/ TreeSearch
    \/ AddItem
    \/ NextBatch
    \/ ResolveBegin
    \/ LookupInoPath
    \/ LookupInoPathFail
    \/ StitchBegin
    \/ Stitch
    \/ StitchWalk
    \/ Return

Spec == Init /\ [][Next]_vars

\* list_subvols up to the end of its build loop.  The program is one thread
\* that runs until it returns or exits: a step that can be taken is taken.
NextBuild ==
    \/ AddBackref
    \/ ListSubvols
    \/ TreeSearchFail
    \/ TreeSearch
    \/ AddItem
    \/ NextBatch

SpecBuildFair == Init /\ [][NextBuild]_vars /\ WF_vars(NextBuild)

(***************************************************************************)
(* The unit harness: add_root, lookup_ino_path and resolve_root called     *)
(* directly, with any arguments, on one root_lookup.                       *)
(***************************************************************************)
InitUnit == InitCommon /\ pc = "unit"

\* add_root with any key; a key that is in the tree ends the process
UnitAddRoot ==
    /\ pc = "unit"
    /\ Len(tree) < MaxRecs
    /\ \E o \in Ids, f \in Ids, d \in DirIds :
          LET r == add_root(tree, o, f, d, NameOf(o, f))
          IN  IF r.ret # 0
              THEN /\ pc' = "exit"
                   /\ op' = <<"add_root", o, f>>
                   /\ tree' = r.root
              ELSE /\ tree' = r.root
                   /\ op' = <<"add_root", o, f>>
                   /\ UNCHANGED pc
    /\ UNCHANGED <<src, cap, sk, buf, i, n, found, full_path, ret, out,
                   lookups, resolved, searches, visited, stitched, calls>>

\* the tree is complete
UnitBuilt ==
    /\ pc = "unit"
    /\ pc' = "unit_lookup"
    /\ UNCHANGED <<src, tree, cap, sk, buf, i, n, found, full_path, ret, out,
                   lookups, resolved, searches, visited, stitched, calls, op>>

\* lookup_ino_path on the leftmost root_info without a path, or once more
\* on any root_info that has its path
UnitLookupInoPath ==
    /\ pc = "unit_lookup"
    /\ \E k \in 1 .. Len(tree) :
          /\ \A j \in 1 .. (k - 1) : tree[j].path # NULL
          /\ LET r == lookup_ino_path(tree[k])
             IN  /\ tree' = [tree EXCEPT ![k] = r.ri]
                 /\ lookups' = lookups + r.ioctls
          /\ op' = IF tree[k].path = NULL THEN <<"lookup_ino_path", k>>
                   ELSE <<"lookup_ino_path again", k>>
    /\ UNCHANGED <<src, cap, sk, buf, i, n, found, full_path, ret, pc, out,
                   resolved, searches, visited, stitched, calls>>

\* resolve_root on any root_info, once every path is filled in
UnitResolveRoot ==
    /\ pc = "unit_lookup"
    /\ out = <<>>
    /\ \A k \in 1 .. Len(tree) : tree[k].path # NULL
    /\ \E k \in 1 .. Len(tree) :
          /\ n' = k
          /\ resolve_root_call(k)
    /\ op' = <<"resolve_root">>
    /\ UNCHANGED <<src, tree, cap, sk, buf, i, ret, out, lookups, resolved,
                   calls>>

UnitWalk ==
    /\ resolve_root_iter("unit_lookup", 0)
    /\ UNCHANGED <<src, tree, cap, sk, buf, i, ret, lookups, resolved, stitched,
                   calls,
                   op>>

NextUnit ==
    \/ UnitAddRoot
    \/ UnitBuilt
    \/ UnitLookupInoPath
    \/ UnitResolveRoot
    \/ UnitWalk

SpecUnit == InitUnit /\ [][NextUnit]_vars

\* resolve_root, once called, runs until it returns
SpecUnitFair == SpecUnit /\ WF_vars(UnitWalk)

(***************************************************************************)
(* list_subvols on one known filesystem: the subvolume 5 "toplevel", its   *)
(* subvolume 256 "snap1" and the subvolume 257 "nested" of 256, each in    *)
(* a root directory.  list_subvols may be called when the filesystem has   *)
(* the first one, two or all three of them.                                *)
(***************************************************************************)
E2EItems ==
    << [objectid |-> 5, offset |-> 5, dirid |-> 0,
        name |-> <<"t", "o", "p", "l", "e", "v", "e", "l">>],
       [objectid |-> 256, offset |-> 5, dirid |-> 256,
        name |-> <<"s", "n", "a", "p", "1">>],
       [objectid |-> 257, offset |-> 256, dirid |-> 256,
        name |-> <<"n", "e", "s", "t", "e", "d">>] >>

\* the filesystem gets the next of the three items
E2EAddBackref ==
    /\ pc = "fs"
    /\ Len(src) < Len(E2EItems)
    /\ src' = Append(src, E2EItems[Len(src) + 1])
    /\ UNCHANGED <<tree, cap, sk, buf, i, n, found, full_path, ret, pc, out,
                   lookups, resolved, searches, visited, stitched, calls, op>>

NextE2E ==
    \/ E2EAddBackref
    \/ ListSubvols
    \/ TreeSearchFail
    \/ TreeSearch
    \/ AddItem
    \/ NextBatch
    \/ ResolveBegin
    \/ LookupInoPath
    \/ LookupInoPathFail
    \/ StitchBegin
    \/ Stitch
    \/ StitchWalk
    \/ Return

SpecE2E == Init /\ [][NextE2E]_vars

(***************************************************************************)
(* Properties.                                                             *)
(***************************************************************************)
KeyOf(ri) == <<ri.root_id, ri.ref_tree>>
Nodes == 1 .. Len(tree)
HasKey(root, root_id, ref_tree) ==
    \E k \in 1 .. Len(root) : KeyOf(root[k]) = <<root_id, ref_tree>>

\* no two nodes of the tree have the same (root_id, ref_tree)
NoDuplicateKey ==
    \A j \in Nodes, k \in Nodes : KeyOf(tree[j]) = KeyOf(tree[k]) => j = k

\* root with one node of the key put in, the other nodes as they were
Linked(root, root2, root_id, ref_tree) ==
    /\ Len(root2) = Len(root) + 1
    /\ \E p \in 1 .. Len(root2) :
          /\ KeyOf(root2[p]) = <<root_id, ref_tree>>
          /\ root = SubSeq(root2, 1, p - 1) \o SubSeq(root2, p + 1, Len(root2))

\* a step of add_root (op' names its key): with a key of the tree it is the
\* exit and leaves the tree, with another key it links one node
AddRootStep ==
    pc = "unit" /\ pc' # "unit_lookup" =>
        IF HasKey(tree, op'[2], op'[3])
        THEN pc' = "exit" /\ tree' = tree
        ELSE pc' = "unit" /\ Linked(tree, tree', op'[2], op'[3])

\* C1: the tree never holds two root_info with the same (root_id, ref_tree);
\* add_root with a key that is in the tree is rejected (exit) and leaves every
\* node of the tree as it was.
C1_UniqueKeys ==
    /\ []NoDuplicateKey
    /\ [][AddRootStep]_vars

\* C1 witness: an add_root was rejected on a tree that holds other nodes too
C1_Witness ==
    /\ pc = "exit"
    /\ op[1] = "add_root"
    /\ Len(tree) >= 2
    /\ HasKey(tree, op[2], op[3])

\* the node tree_search returns has the root_id, if any node has it
SearchFinds(root_id) ==
    LET f == tree_search(tree, root_id)
    IN  IF \E k \in Nodes : tree[k].root_id = root_id
        THEN f # 0 /\ tree[f].root_id = root_id
        ELSE f = 0

\* C2: tree_search returns no node when no node has the root_id, and else
\* the node with the smallest ref_tree among the nodes with that root_id.
C2_FindFirstSmallest ==
    \A id \in Ids :
        /\ SearchFinds(id)
        /\ LET f == tree_search(tree, id)
           IN  f # 0 => \A k \in Nodes :
                   tree[k].root_id = id => tree[f].ref_tree <= tree[k].ref_tree


(***************************************************************************)
(* Properties of list_subvols.                                             *)
(***************************************************************************)
Triples == 1 .. Len(out)
\* the (objectid, offset) of the filesystem's items are all different
UniqueSource ==
    \A j \in 1 .. Len(src), k \in 1 .. Len(src) :
        (src[j].objectid = src[k].objectid /\ src[j].offset = src[k].offset)
            => j = k
\* the build loop has ended without an error
Built == pc \in {"built", "resolve", "stitch", "walk", "done"}
\* list_subvols ended in an error: a failed ioctl or the exit of add_root
Failed == ret # 0 \/ pc \in {"error", "exit"}

C4_NoGaps ==
    (Built /\ UniqueSource /\ \A k \in 1 .. Len(src) : src[k].objectid < U64Max) =>
        {<<tree[k].root_id, tree[k].ref_tree, tree[k].dir_id, tree[k].name>> :
            k \in Nodes}
        = {<<src[k].objectid, src[k].offset, src[k].dirid, src[k].name>> :
            k \in 1 .. Len(src)}

\* C5: a run in which an ioctl failed or add_root exited has printed no
\* triple; whatever was printed was printed after the build and resolve
\* loops ended without error.
C5_AllOrNothing ==
    /\ Failed => out = <<>>
    /\ out # <<>> => pc \in {"stitch", "walk", "done"}

\* C5 witness: the lookup ioctl failed after another root_info was resolved
C5_Witness ==
    /\ pc = "error"
    /\ Len(tree) >= 2
    /\ \E k \in Nodes : tree[k].path # NULL
    /\ out = <<>>

\* C6: in a run that ends without error, resolve_root was called exactly once
\* on every node of the tree and printed one triple for each call.
C6_OneTriplePerRecord ==
    pc = "done" =>
        /\ Len(out) = Len(tree)
        /\ Len(stitched) = Len(tree)
        /\ {stitched[j] : j \in 1 .. Len(stitched)} = Nodes
        /\ \A j \in Triples : out[j][1] = tree[stitched[j]].root_id

\* C6 witness: a complete listing of a tree where two nodes share a root_id
C6_Witness ==
    /\ pc = "done"
    /\ Len(out) = MaxRecs
    /\ \E j \in Nodes, k \in Nodes : j # k /\ tree[j].root_id = tree[k].root_id


(***************************************************************************)
(* Properties of lookup_ino_path and resolve_root.                         *)
(***************************************************************************)
\* the directory path the kernel gives for a root_info
Fragment(ri) == ino_lookup_ioctl(ri.ref_tree, ri.dir_id)
LocalPath(ri) == IF Fragment(ri) = <<>> THEN ri.name ELSE Fragment(ri) \o ri.name

\* a step of lookup_ino_path on node op'[2] whose path is NULL
FirstLookupStep ==
    op'[1] = "lookup_ino_path" =>
        LET k == op'[2]
        IN  /\ tree[k].path = NULL
            /\ tree' = [tree EXCEPT ![k].path = Ptr(LocalPath(tree[k]))]
            /\ lookups' = lookups + 1

\* a step of lookup_ino_path on node op'[2] whose path is set
SecondLookupStep ==
    op'[1] = "lookup_ino_path again" =>
        /\ tree[op'[2]].path # NULL
        /\ tree' = tree
        /\ lookups' = lookups

\* C7: lookup_ino_path on a root_info without path sets the path to the name
\* when the kernel gives an empty directory path and to directory path + name
\* otherwise (one ioctl); on a root_info with a path it changes nothing and
\* makes no ioctl.
C7_ResolveIdempotent == [][FirstLookupStep /\ SecondLookupStep]_vars

\* C7 witness: lookup_ino_path was called again on a root_info whose path is
\* directory path + name, in a tree that also has a path that is the name
C7_Witness ==
    /\ op[1] = "lookup_ino_path again"
    /\ Fragment(tree[op[2]]) # <<>>
    /\ tree[op[2]].path = Ptr(Fragment(tree[op[2]]) \o tree[op[2]].name)
    /\ \E k \in Nodes : tree[k].path = Ptr(tree[k].name)
    /\ lookups = Len(tree)

\* resolve_root has returned (the unit harness calls it once)
Returned == pc = "unit_lookup" /\ Len(out) = 1
SelfRef(k) == tree[k].ref_tree = tree[k].root_id
HasRootId(root_id) == \E k \in Nodes : tree[k].root_id = root_id
OnlyOfItsId(k) == \A j \in Nodes : tree[j].root_id = tree[k].root_id => j = k
LastVisited == visited[Len(visited)]

\* the paths of the nodes v[1], v[2], ... joined by "/", the last one first
RECURSIVE JoinPaths(_)
JoinPaths(v) ==
    IF Len(v) = 1 THEN Deref(tree[v[1]].path)
    ELSE JoinPaths(Tail(v)) \o <<"/">> \o Deref(tree[v[1]].path)

\* a is referenced from b, b from c, and c from itself
Chain(a, b, c) ==
    /\ a # b /\ b # c /\ a # c
    /\ tree[a].ref_tree = tree[b].root_id
    /\ tree[b].ref_tree = tree[c].root_id
    /\ SelfRef(c)

ChainResult(a, b, c) ==
    out[1] = <<tree[a].root_id, tree[c].root_id,
               Deref(tree[c].path) \o <<"/">> \o Deref(tree[b].path)
                   \o <<"/">> \o Deref(tree[a].path)>>

\* C8 (as amended): for root_info A, B, C with A.ref_tree = B.root_id,
\* B.ref_tree = C.root_id and C.ref_tree = C.root_id, where no other node
\* has the root_id of B or of C, resolve_root(A) prints C.path/B.path/A.path
\* and top level C.root_id; for every call the printed path is the paths of
\* the visited nodes joined by "/", the last visited first, and each visited
\* node has the root_id that the one before it has as ref_tree.
C8_ChainPath ==
    Returned =>
        /\ \A a \in Nodes, b \in Nodes, c \in Nodes :
              (stitched = <<a>> /\ Chain(a, b, c)
                 /\ OnlyOfItsId(b) /\ OnlyOfItsId(c)) => ChainResult(a, b, c)
        /\ visited[1] = stitched[1]
        /\ out[1][1] = tree[stitched[1]].root_id
        /\ out[1][3] = JoinPaths(visited)
        /\ \A j \in 1 .. (Len(visited) - 1) :
              tree[visited[j + 1]].root_id = tree[visited[j]].ref_tree

\* C8 witness: resolve_root returned after a walk over three nodes that ends
\* at a self-referential one
C8_Witness ==
    /\ Returned
    /\ Len(visited) = 3
    /\ Chain(visited[1], visited[2], visited[3])

\* C8 as stated: for any root_info A, B, C of the tree with A.ref_tree =
\* B.root_id, B.ref_tree = C.root_id and C.ref_tree = C.root_id,
\* resolve_root(A) prints C.path/B.path/A.path and top level C.root_id.
C8_AnyChain ==
    Returned =>
        \A a \in Nodes, b \in Nodes, c \in Nodes :
            (stitched = <<a>> /\ Chain(a, b, c)) => ChainResult(a, b, c)

\* C9: resolve_root on a root_info whose ref_tree is its root_id ends in its
\* first iteration, without a tree_search, and prints top level root_id and
\* the root_info's own path.
C9_SelfReference ==
    \A a \in Nodes :
        (stitched = <<a>> /\ SelfRef(a)) =>
            /\ searches = 0
            /\ pc = "walk" => visited = <<>>
            /\ Returned =>
                  /\ visited = <<a>>
                  /\ out[1] = <<tree[a].root_id, tree[a].root_id,
                                Deref(tree[a].path)>>

\* C9 witness: resolve_root returned for a self-referential root_info whose
\* root_id another node has too
C9_Witness ==
    /\ Returned
    /\ SelfRef(stitched[1])
    /\ ~OnlyOfItsId(stitched[1])

\* C10: the walk goes on from a node only if some node has the root_id of its
\* ref_tree; when it ends at a node whose ref_tree is not its root_id, no
\* node has that ref_tree as root_id, the top level is that ref_tree and the
\* path is the one put together up to that node.
C10_UnindexedParent ==
    /\ (pc = "walk" /\ visited # <<>>) =>
          /\ ~SelfRef(LastVisited)
          /\ HasRootId(tree[LastVisited].ref_tree)
    /\ (Returned /\ ~SelfRef(LastVisited)) =>
          /\ ~HasRootId(tree[LastVisited].ref_tree)
          /\ out[1][2] = tree[LastVisited].ref_tree
          /\ out[1][3] = JoinPaths(visited)
          /\ Len(visited) = 1 => out[1][3] = Deref(tree[stitched[1]].path)

\* C10 witness: the walk ended at its second node, whose ref_tree no node has
\* as root_id
C10_Witness ==
    /\ Returned
    /\ Len(visited) = 2
    /\ ~SelfRef(LastVisited)
    /\ ~HasRootId(tree[LastVisited].ref_tree)

(***************************************************************************)
(* Properties of list_subvols on the known filesystem.                     *)
(***************************************************************************)
E2EToplevel == <<"t", "o", "p", "l", "e", "v", "e", "l">>
E2ESnap1 == E2EToplevel \o <<"/">> \o <<"s", "n", "a", "p", "1">>
E2ENested == E2ESnap1 \o <<"/">> \o <<"n", "e", "s", "t", "e", "d">>
E2ETriples == {<<5, 5, E2EToplevel>>, <<256, 5, E2ESnap1>>,
               <<257, 5, E2ENested>>}

\* C11: on the filesystem with the items (5,5,dir 0,"toplevel"),
\* (256,5,dir 256,"snap1") and (257,256,dir 256,"nested"), where every
\* directory path is empty, a list_subvols that ends without error has
\* printed exactly (5,5,"toplevel"), (256,5,"toplevel/snap1") and
\* (257,5,"toplevel/snap1/nested"), each once, with any batch size.
C11_EndToEnd ==
    (src = E2EItems /\ pc = "done") =>
        /\ Len(out) = 3
        /\ {out[k] : k \in Triples} = E2ETriples
        /\ lookups = 3
        /\ \A k \in Nodes : Fragment(tree[k]) = <<>>

\* C11 witness: the listing of the three items is complete after batches of
\* one item
C11_Witness ==
    /\ src = E2EItems
    /\ pc = "done"
    /\ cap = 1
    /\ Len(out) = 3

(***************************************************************************)
(* Properties of the build loop.                                           *)
(***************************************************************************)
\* the tree after add_root of the first k of the items, one after the other:
\* what the for loop makes of one batch that holds them all
RECURSIVE IndexOf(_, _)
IndexOf(items, k) ==
    IF k = 0 THEN <<>>
    ELSE LET sh == items[k]
         IN  add_root(IndexOf(items, k - 1), sh.objectid, sh.offset, sh.dirid,
                      sh.name).root

\* the build loop made two searches: the first returned every item of the
\* filesystem, the second none
TwoBatches ==
    /\ Len(calls) = 2
    /\ calls[1][2] = Len(src)
    /\ calls[2][2] = 0

\* C12: when the first search returns all the items and the second search
\* returns none, the tree the build loop ends with is the tree that add_root
\* of the items of one batch gives; the empty batch adds and changes nothing.
C12_EmptySecondBatch ==
    (pc = "built" /\ TwoBatches) => tree = IndexOf(src, Len(src))

\* C12 witness: the build loop ended after a batch with all MaxRecs items and
\* an empty batch
C12_Witness ==
    /\ pc = "built"
    /\ TwoBatches
    /\ Len(src) = MaxRecs
    /\ Len(tree) = MaxRecs

\* the end of a batch that is followed by another search: min_objectid is
\* the objectid of the batch's last item plus one, and above the
\* min_objectid of the search that returned the batch
CursorStep ==
    (pc = "items" /\ pc' = "search") =>
        /\ sk'.min_objectid = buf[Len(buf)].objectid + 1
        /\ sk'.min_objectid > calls[Len(calls)][1]

\* a search that returns items: none of them has the key of an item of an
\* earlier batch (the items of the earlier batches are in the tree)
SearchStep ==
    (pc = "search" /\ pc' = "items") =>
        \A k \in 1 .. Len(buf') :
            /\ ~HasKey(tree, buf'[k].objectid, buf'[k].offset)
            /\ \A j \in Nodes : tree[j].root_id < buf'[k].objectid

\* C13: from one search of the build loop to the next, min_objectid goes up
\* (to the objectid of the last item of the batch plus one), so no item is
\* returned by two searches; on a filesystem with unique keys add_root never
\* meets a key that is in the tree (no exit).
C13_CursorAdvances ==
    /\ [][CursorStep /\ SearchStep]_vars
    /\ [](UniqueSource => pc # "exit")

\* C13 witness: the second search of a filesystem with unique keys returned
\* items too, after a first batch that did not hold them
C13_Witness ==
    /\ UniqueSource
    /\ pc = "items"
    /\ Len(calls) = 2
    /\ calls[1][2] >= 1
    /\ calls[2][2] >= 1
    /\ calls[1][1] < calls[2][1]
    /\ Len(tree) >= 1

InBuildLoop == pc \in {"search", "items"}

\* the build loop ends only with a search that returned no item or after a
\* batch whose last item has the largest objectid
LoopEndStep ==
    (InBuildLoop /\ pc' = "built") =>
        \/ pc = "search" /\ calls'[Len(calls')][2] = 0
        \/ pc = "items" /\ i = sk.nr_items /\ buf[Len(buf)].objectid = U64Max

\* and in both cases it does end: the loop goes on only after a search that
\* returned items and after a batch whose last objectid is not the largest
LoopGoesOnStep ==
    /\ (pc = "search" /\ pc' = "items") => calls'[Len(calls')][2] >= 1
    /\ (pc = "items" /\ pc' = "search") => buf[Len(buf)].objectid < U64Max

\* C14: the build loop makes at most one search more than the filesystem has
\* items; it ends exactly with a search that returns no item or with a batch
\* whose last objectid is the largest identifier; on a filesystem with
\* unique keys it does end, in the state after the loop or with the error of
\* a failed search.
C14_BuildLoopEnds ==
    /\ [](Len(calls) <= Len(src) + 1)
    /\ [][LoopEndStep /\ LoopGoesOnStep]_vars
    /\ (pc = "search" /\ UniqueSource) ~> (Built \/ pc = "error")

\* C14 witness: the loop ended after two searches that returned items and
\* one that returned none
C14_Witness ==
    /\ pc = "built"
    /\ Len(calls) = 3
    /\ calls[1][2] >= 1
    /\ calls[2][2] >= 1
    /\ calls[3][2] = 0
    /\ Len(tree) >= 2

(***************************************************************************)
(* Properties of the loop of resolve_root.                                 *)
(***************************************************************************)
\* the node whose root_id is the ref_tree of node k, as tree_search gives
\* it; 0 when k refers to itself or to no node
ParentNode(k) ==
    IF SelfRef(k) THEN 0 ELSE tree_search(tree, tree[k].ref_tree)

\* following ParentNode from k leaves the tree within steps nodes
RECURSIVE EndsWithin(_, _)
EndsWithin(k, steps) ==
    IF steps = 0 THEN FALSE
    ELSE IF ParentNode(k) = 0 THEN TRUE
    ELSE EndsWithin(ParentNode(k), steps - 1)

\* following ParentNode from k never comes back to a node
Acyclic(k) == EndsWithin(k, Len(tree))

NoRevisit ==
    \A j \in 1 .. Len(visited), k \in 1 .. Len(visited) :
        visited[j] = visited[k] => j = k

\* C15: resolve_root on a node from which the references never come back to
\* a node visits no node twice, at most as many nodes as the tree has, and
\* returns; resolve_root on a node from which the references run into a
\* cycle (A refers to B and B to A) never returns.
C15_StitchTerminates ==
    /\ []((stitched # <<>> /\ Acyclic(stitched[1])) =>
              (NoRevisit /\ Len(visited) <= Len(tree)))
    /\ []((stitched # <<>> /\ ~Acyclic(stitched[1])) => pc = "walk")
    /\ (pc = "walk" /\ Acyclic(stitched[1])) ~> Returned

\* C15 witness: resolve_root was called on a node A that refers to B while B
\* refers to A, and its loop has run MaxWalk times without an end
C15_Witness ==
    /\ pc = "walk"
    /\ Len(visited) = MaxWalk
    /\ \E b \in Nodes :
          /\ b # stitched[1]
          /\ ParentNode(stitched[1]) = b
          /\ ParentNode(b) = stitched[1]

(***************************************************************************)
(* Properties of the passes of list_subvols.                               *)
(***************************************************************************)
InStitchPass == pc \in {"stitch", "walk", "done"}

\* C16: when the stitch loop of list_subvols starts, and as long as it runs,
\* every root_info of the tree has its path; resolve_root never reads a
\* path that is NULL, neither of the node it is called on nor of a node it
\* reached by tree_search.
C16_PathsSetBeforeStitch ==
    /\ InStitchPass => \A k \in Nodes : tree[k].path # NULL
    /\ pc = "walk" => (found # 0 /\ tree[found].path # NULL)
    /\ pc # "segv"

\* C16 witness: resolve_root went on to a node that tree_search returned and
\* is about to read its path
C16_Witness ==
    /\ pc = "walk"
    /\ visited # <<>>
    /\ found # 0
    /\ found # stitched[Len(stitched)]
    /\ Len(resolved) = Len(tree)

KeysOf(root) == {KeyOf(root[k]) : k \in 1 .. Len(root)}
FieldsOf(ri) == <<ri.root_id, ri.ref_tree, ri.dir_id, ri.name>>

\* the set of root_info changes only in the for loop of the build loop, and
\* no root_info leaves the tree
IndexChangeStep ==
    /\ KeysOf(tree) \subseteq KeysOf(tree')
    /\ (KeysOf(tree') # KeysOf(tree) \/ Len(tree') # Len(tree)) => pc = "items"

\* a root_info keeps root_id, ref_tree, dir_id and name; its path changes
\* only from NULL to a string, and only in the resolve loop
FieldsStep ==
    \A j \in 1 .. Len(tree), k \in 1 .. Len(tree') :
        KeyOf(tree[j]) = KeyOf(tree'[k]) =>
            /\ FieldsOf(tree'[k]) = FieldsOf(tree[j])
            /\ tree'[k].path # tree[j].path =>
                  /\ tree[j].path = NULL
                  /\ tree'[k].path # NULL
                  /\ pc = "resolve"

\* the stitch loop and resolve_root leave the tree as it is
StitchFrameStep == InStitchPass => tree' = tree

\* C17: root_info are put in the tree only by the build loop and none is
\* taken out; root_id, ref_tree, dir_id and name of a root_info never
\* change; its path changes at most once, from NULL to a string, in the
\* resolve loop; the stitch loop changes nothing in the tree.
C17_RecordLifecycle ==
    [][IndexChangeStep /\ FieldsStep /\ StitchFrameStep]_vars

\* C17 witness: a complete listing of MaxRecs root_info, one of them with a
\* directory path in front of its name
C17_Witness ==
    /\ pc = "done"
    /\ Len(tree) = MaxRecs
    /\ Len(out) = MaxRecs
    /\ \E k \in Nodes : tree[k].path # Ptr(tree[k].name)
    /\ \A k \in Nodes : tree[k].path # NULL

\* the key of node j is below the key of node k
KeyBelow(j, k) ==
    \/ tree[j].root_id < tree[k].root_id
    \/ tree[j].root_id = tree[k].root_id /\ tree[j].ref_tree < tree[k].ref_tree

Lookups == 1 .. Len(resolved)

BatchEndStep ==
    (pc = "items" /\ pc' # "items" /\ pc' # "exit") =>
        IF buf[Len(buf)].objectid = U64Max
        THEN /\ pc' = "built"
             /\ sk'.min_objectid = U64Max
             /\ calls' = calls
        ELSE /\ pc' = "search"
             /\ sk'.min_objectid = buf[Len(buf)].objectid + 1
             /\ sk'.min_objectid <= U64Max

\* C19: min_objectid never wraps: it is an identifier of the width and
\* never goes down; after a batch whose last objectid is the largest
\* identifier the build loop ends without the increment and no search
\* follows; after any other batch the increment stays within the width.
C19_NoWrap ==
    /\ [](sk.min_objectid \in 0 .. U64Max)
    /\ [][sk'.min_objectid >= sk.min_objectid]_vars
    /\ [][BatchEndStep]_vars
    /\ [][Built => calls' = calls]_vars

\* C19 witness: the build loop ended after a batch whose last objectid is
\* the largest identifier, and the listing went on to its end
C19_Witness ==
    /\ pc = "done"
    /\ sk.min_objectid = U64Max
    /\ calls[Len(calls)][2] >= 1
    /\ Len(tree) >= 2

(***************************************************************************)
(* Properties of the top level that resolve_root prints.                   *)
(***************************************************************************)
\* the top level printed is the ref_tree of the last node visited, and is
\* that node's own root_id or the root_id of no node
TopOfLastVisited ==
    /\ out[1][2] = tree[LastVisited].ref_tree
    /\ \/ out[1][2] = tree[LastVisited].root_id
       \/ ~HasRootId(out[1][2])

\* C20 (as amended): when resolve_root returns, the top level it printed is
\* the ref_tree of the last node visited and is either that node's own
\* root_id or the root_id of no node of the tree; it is never a root_id that
\* a node has and that differs from the last node's own root_id.
C20_TopLevel ==
    Returned =>
        /\ TopOfLastVisited
        /\ \A k \in Nodes :
              tree[k].root_id = out[1][2] =>
                  tree[k].root_id = tree[LastVisited].root_id

\* C20 witness: the walk ended at its second node, which refers to itself
\* and shares its root_id with another node
C20_Witness ==
    /\ Returned
    /\ Len(visited) = 2
    /\ SelfRef(LastVisited)
    /\ ~OnlyOfItsId(LastVisited)

\* C20 as stated: the top level is the last node's own root_id or the
\* root_id of no node, and never the root_id of another node of the tree.
C20_NeverOtherRecord ==
    Returned =>
        /\ TopOfLastVisited
        /\ \A k \in Nodes :
              k # LastVisited => tree[k].root_id # out[1][2]

=============================================================================
